---- MODULE Spec2Model ----
(***************************************************************************)
(* Model of the Prepr connector (src/prepr/src/index.ts): the paginated    *)
(* GraphQL fetch of syncArticles/fetchArticles, the article transform with *)
(* its content-block fold, the lastSync cursor, and the two event handlers *)
(* createAllNodes and updateNodes, running against a CMS whose articles    *)
(* are edited and deleted while the connector works.                       *)
(***************************************************************************)
EXTENDS Integers, Sequences, FiniteSets, TLC

\* ------------------------------------------------------------------ bounds
MaxTotal == 230     \* SpecFetch: the CMS starts with 0..MaxTotal articles
MaxClock == 1500    \* the wall clock stops at this many milliseconds
MaxEdits == 2       \* CMS edits and deletions in one behaviour
MaxRequests == 4    \* cap on the page requests of one sync
MaxBlocks == 3      \* longest content-block list folded by SpecFlatten

\* ------------------------------------------------------- program constants
PageSize == 100     \* "limit: 100" of the query, "skip + 100" of the recursion
MsPerSecond == 1000 \* Date.now() counts milliseconds, formatISO prints seconds

Null == 0 - 1       \* JavaScript null (no cursor, no filter)
Absent == 0 - 2     \* no article, no node, under an id


VARIABLES
    now,            \* Date.now(), milliseconds
    cmsN,           \* the CMS was populated with articles 1..cmsN
    cmsDeleted,     \* ids deleted in the CMS
    cmsChangedOn,   \* id -> _changed_on of the article in the CMS
    edits,          \* number of CMS edits and deletions so far
    cache,          \* the host cache's value under key 'lastSync'
    created,        \* watched id -> latest 'updated' passed to model.create
    pc,             \* position of the running event handler
    mode,           \* "none" | "full" | "incremental" | "delete"
    webhook,        \* updateNodesApi.webhookBody, <<>> outside updateNodes
    lastSync,       \* the updateNodes handler's const lastSync
    updatedGte,     \* syncArticles parameter
    skip,           \* fetchArticles parameter of the innermost call
    items,          \* allArticles.data.Articles.items
    total,          \* allArticles.data.Articles.total
    request,        \* the request on its way to the server, <<>> when none
    response,       \* the response on its way back, <<>> when none
    requestLog,     \* every request issued by this handler run, in order
    responses,      \* number of responses received by this handler run
    errorsSeen,     \* a response with an errors list was received
    inFlight,       \* requests issued and not yet answered
    firstTotal,     \* total reported by the first page of this run
    lastPageTotal,  \* total reported by the page received last
    cmsStable,      \* no CMS edit or deletion since this handler run began
    changedAtStart, \* watched id -> _changed_on when this handler run began
    createCalls,    \* model.create calls of this handler run
    createArg,      \* argument of the last model.create call
    deleteLog,      \* ids passed to model.delete by this handler run
    cacheReads,     \* cache.get calls of this handler run
    cacheWrites,    \* cache.set calls of this handler run
    cacheBefore,    \* value of the cache when this handler run began
    pendingCursor,  \* argument of the cache.set call being awaited
    writtenAt,      \* Date.now() read for the last cache.set
    fBlocks,        \* SpecFlatten: the content-block list being folded
    fIdx,           \* SpecFlatten: blocks folded so far
    fBody           \* SpecFlatten: the reduce accumulator

cmsVars == <<cmsN, cmsDeleted, cmsChangedOn, edits>>
hostVars == <<cache, created>>
fetchVars == <<updatedGte, skip, items, total, request, response, requestLog,
               responses, errorsSeen, inFlight, firstTotal, lastPageTotal>>
callVars == <<createCalls, createArg, deleteLog, cacheReads, cacheWrites,
              pendingCursor, writtenAt>>
ghostVars == <<cmsStable, changedAtStart, cacheBefore>>
flatVars == <<fBlocks, fIdx, fBody>>
eventVars == <<mode, webhook, lastSync>>
vars == <<now, cmsVars, hostVars, pc, eventVars, fetchVars, callVars,
          ghostVars, flatVars>>

Min(a, b) == IF a < b THEN a ELSE b

\* ------------------------------------------------------------ content blocks
AssetGroup(urls) ==
    [items |-> [i \in 1..Len(urls) |->
                  [_id |-> "asset", _type |-> "Photo", url |-> urls[i]]]]
CodeBlock(language, code) == [_id |-> "code", code |-> code, language |-> language]
TextBlock(html) == [_id |-> "text", html |-> html]
OtherBlock == [_id |-> "other"]

\* variant: the language tag is used as it comes
ToLowerCaseKeep(s) == s

\* String.prototype.toLowerCase on the language tags
ToLowerCase(s) ==
    CASE s = "JS" -> "js"
      [] s = "TS" -> "ts"
      [] s = "RB" -> "rb"
      [] OTHER -> s

RECURSIVE ImgTags(_, _)
\* content.items.reduce((contentBody, contentItem) => ..., '') from item k on
ImgTags(contentBody, assets) ==
    IF assets = <<>> THEN contentBody
    ELSE ImgTags(contentBody \o "<img href=\"" \o Head(assets).url \o "\"/>",
                 Tail(assets))

\* variant: the inner reduce starts from body, so an asset group appends
ReduceBlockAppending(body, content) ==
    IF "items" \in DOMAIN content
    THEN ImgTags(body, content.items)
    ELSE IF "code" \in DOMAIN content
    THEN body \o "<pre lang=" \o ToLowerCase(content.language) \o "><code>"
              \o content.code \o "</code></pre>"
    ELSE IF "html" \in DOMAIN content
    THEN body \o content.html
    ELSE body

\* the reducer of article.content.reduce
ReduceBlock(body, content) ==
    IF "items" \in DOMAIN content
    THEN ImgTags("", content.items)
    ELSE IF "code" \in DOMAIN content
    THEN body \o "<pre lang=" \o ToLowerCase(content.language) \o "><code>"
              \o content.code \o "</code></pre>"
    ELSE IF "html" \in DOMAIN content
    THEN body \o content.html
    ELSE body

RECURSIVE FoldBlocks(_, _)
FoldBlocks(body, blocks) ==
    IF blocks = <<>> THEN body
    ELSE FoldBlocks(ReduceBlock(body, Head(blocks)), Tail(blocks))

FlattenBody(blocks) == FoldBlocks("", blocks)

\* ------------------------------------------------------------------ the CMS
ExampleBlocks ==
    <<AssetGroup(<<"a", "b">>), CodeBlock("JS", "x"), TextBlock("<p>y</p>")>>

AuthorsOf(id) ==
    CASE id % 3 = 0 -> <<>>
      [] id % 3 = 1 ->
           <<[_changed_on |-> 0, _id |-> "au1", bio |-> "bio one",
              full_name |-> "Ann One"]>>
      [] OTHER ->
           <<[_changed_on |-> 0, _id |-> "au2", bio |-> "bio two",
              full_name |-> "Bob Two"],
             [_changed_on |-> 0, _id |-> "au1", bio |-> "bio one",
              full_name |-> "Ann One"]>>

CategoriesOf(id) ==
    CASE id % 2 = 0 -> <<>>
      [] OTHER ->
           <<[_changed_on |-> 0, _id |-> "cat1", _slug |-> "news",
              title |-> "News"],
             [_changed_on |-> 0, _id |-> "cat2", _slug |-> "tech",
              title |-> "Tech"]>>

ContentOf(id) ==
    CASE id % 4 = 0 -> <<>>
      [] id % 4 = 1 -> ExampleBlocks
      [] id % 4 = 2 -> <<AssetGroup(<<"a">>)>>
      [] OTHER -> <<TextBlock("<h1>t</h1>"), OtherBlock, CodeBlock("TS", "z")>>

\* one element of Articles.items as the query selects it
Article(id) ==
    [_changed_on |-> cmsChangedOn[id],
     _id |-> id,
     _slug |-> "post-" \o ToString(id),
     authors |-> AuthorsOf(id),
     categories |-> CategoriesOf(id),
     content |-> ContentOf(id),
     title |-> "Title " \o ToString(id)]

Live == (1..cmsN) \ cmsDeleted

\* where: {_changed_on_gte: gte}
Matching(gte) == {id \in Live : gte = Null \/ cmsChangedOn[id] >= gte}

RECURSIVE SortChangedOnDesc(_, _)
\* sort: changed_on_DESC, articles of equal _changed_on by ascending id
SortChangedOnDesc(ids, times) ==
    IF times = {} THEN <<>>
    ELSE LET t == CHOOSE x \in times : \A y \in times : y <= x
             At(id) == id \in ids /\ cmsChangedOn[id] = t
         IN  SelectSeq([i \in 1..cmsN |-> i], At)
               \o SortChangedOnDesc(ids, times \ {t})

QueryIds(gte) ==
    LET ids == Matching(gte)
    IN  SortChangedOnDesc(ids, {cmsChangedOn[id] : id \in ids})

\* the data answer to a request: limit 100, skip, sort, where
ArticlesData(req) ==
    LET all == QueryIds(req.where._changed_on_gte)
        page == SubSeq(all, req.skip + 1, Min(req.skip + PageSize, Len(all)))
    IN  [data |-> [Articles |->
           [items |-> [i \in 1..Len(page) |-> Article(page[i])],
            total |-> Len(all)]]]

ErrorsAnswer ==
    [errors |-> <<[message |-> "boom", locations |-> <<[line |-> 1, column |-> 2]>>]>>]

\* the ids whose edits, deletions and nodes the model follows
Watched == {1, cmsN} \cap (1..cmsN)

Totals == {0, 1, PageSize + 1}

\* --------------------------------------------------------------- transform
\* variant: name and bio taken from each other's field
AuthorNodeSwapped(author) ==
    [author_id |-> author._id, bio |-> author.full_name, name |-> author.bio]

AuthorNode(author) ==
    [author_id |-> author._id, bio |-> author.bio, name |-> author.full_name]

CategoryNode(category) ==
    [category_id |-> category._id, slug |-> category._slug,
     title |-> category.title]

\* the callback of allArticles.data.Articles.items.map
ArticleNode(article) ==
    [authors |-> [i \in 1..Len(article.authors) |-> AuthorNode(article.authors[i])],
     body |-> FlattenBody(article.content),
     categories |-> [i \in 1..Len(article.categories) |->
                       CategoryNode(article.categories[i])],
     id |-> article._id,
     slug |-> article._slug,
     title |-> article.title,
     updated |-> article._changed_on]

Nodes(articles) == [i \in 1..Len(articles) |-> ArticleNode(articles[i])]

\* what model.create(nodes) adds to the record of articles handed over
Upsert(store, nodes) ==
    [id \in DOMAIN store |->
       LET at == {i \in 1..Len(nodes) : nodes[i].id = id}
       IN  IF at = {} THEN store[id]
           ELSE nodes[CHOOSE i \in at : \A j \in at : j <= i].updated]

\* variant: the cursor keeps the milliseconds
FormatISOMillis(ms) == ms

\* formatISO(Date.now()): the instant at whole-second resolution
FormatISO(ms) == (ms \div MsPerSecond) * MsPerSecond

\* variant: the filter is sent with the first page only
VariablesFilterFirstPage(s, gte) ==
    [skip |-> s, where |-> [_changed_on_gte |-> IF s = 0 THEN gte ELSE Null]]

\* the variables of the POST body
Variables(s, gte) == [skip |-> s, where |-> [_changed_on_gte |-> gte]]

\* variant: the total is taken from every page
NextTotalLatest(t, pageTotal) == pageTotal

\* if (total === 0) total = page total
NextTotal(t, pageTotal) == IF t = 0 THEN pageTotal ELSE t

\* if (total > items.length) fetch the next page
MorePages(t, n) == t > n

\* variant: the next page starts one item early
NextSkipOverlap(s) == s + PageSize - 1

\* fetchArticles(skip + 100)
NextSkip(s) == s + PageSize

\* --------------------------------------------------------------- the state
NoRun ==
    /\ mode = "none"
    /\ webhook = <<>>
    /\ lastSync = Null
    /\ updatedGte = Null
    /\ skip = 0
    /\ items = <<>>
    /\ total = 0
    /\ request = <<>>
    /\ response = <<>>
    /\ requestLog = <<>>
    /\ responses = 0
    /\ errorsSeen = FALSE
    /\ inFlight = 0
    /\ firstTotal = Null
    /\ lastPageTotal = Null
    /\ cmsStable = TRUE
    /\ createCalls = 0
    /\ createArg = <<>>
    /\ deleteLog = <<>>
    /\ cacheReads = 0
    /\ cacheWrites = 0
    /\ pendingCursor = Null
    /\ writtenAt = Null

InitFlat ==
    /\ fBlocks = <<>>
    /\ fIdx = 0
    /\ fBody = ""

InitWith(totals) ==
    /\ now = 0
    /\ cmsN \in totals
    /\ cmsDeleted = {}
    /\ cmsChangedOn = [id \in 1..cmsN |-> 0]
    /\ edits = 0
    /\ cache = Null
    /\ created = [id \in Watched |-> Absent]
    /\ pc = "idle"
    /\ NoRun
    /\ changedAtStart = [id \in Watched |-> 0]
    /\ cacheBefore = Null
    /\ InitFlat

Init == InitWith(Totals)

\* ------------------------------------------------------------ environment
Tick ==
    \E d \in {MsPerSecond \div 2, MsPerSecond} :
       /\ now + d <= MaxClock
       /\ now' = now + d
       /\ UNCHANGED <<cmsVars, hostVars, pc, eventVars, fetchVars, callVars,
                      ghostVars, flatVars>>

\* an editor saves an article: its _changed_on becomes the current time
CmsEdit ==
    \E id \in Watched \ cmsDeleted :
       /\ edits < MaxEdits
       /\ cmsChangedOn[id] < now
       /\ cmsChangedOn' = [cmsChangedOn EXCEPT ![id] = now]
       /\ edits' = edits + 1
       /\ cmsStable' = (pc = "idle")
       /\ UNCHANGED <<now, cmsN, cmsDeleted, hostVars, pc, eventVars, fetchVars,
                      callVars, changedAtStart, cacheBefore, flatVars>>

\* an editor deletes an article
CmsDelete ==
    \E id \in Watched \ cmsDeleted :
       /\ edits < MaxEdits
       /\ cmsDeleted' = cmsDeleted \cup {id}
       /\ edits' = edits + 1
       /\ cmsStable' = (pc = "idle")
       /\ UNCHANGED <<now, cmsN, cmsChangedOn, hostVars, pc, eventVars,
                      fetchVars, callVars, changedAtStart, cacheBefore,
                      flatVars>>

\* the GraphQL server answers the outstanding request, with data or errors
ServerRespond ==
    /\ request # <<>>
    /\ \E answer \in {ArticlesData(request), ErrorsAnswer} : response' = answer
    /\ request' = <<>>
    /\ UNCHANGED <<now, cmsVars, hostVars, pc, eventVars, updatedGte, skip,
                   items, total, requestLog, responses, errorsSeen, inFlight,
                   firstTotal, lastPageTotal, callVars, ghostVars, flatVars>>

\* ------------------------------------------------------------- the handlers
BeginRun ==
    /\ pc = "idle"
    /\ cmsStable' = TRUE
    /\ changedAtStart' = [id \in Watched |->
                            IF id \in cmsDeleted THEN Absent ELSE cmsChangedOn[id]]
    /\ cacheBefore' = cache

\* event 'createAllNodes': syncArticles(..., null) up to its first request
CreateAllNodes ==
    /\ BeginRun
    /\ mode' = "full"
    /\ updatedGte' = Null
    /\ pc' = "request"
    /\ UNCHANGED <<now, cmsVars, hostVars, webhook, lastSync, skip, items,
                   total, request, response, requestLog, responses, errorsSeen,
                   inFlight, firstTotal, lastPageTotal, callVars, flatVars>>

WebhookEvents == {"content_item.deleted", "content_item.changed"}

\* variant: the comparison inverted
IsDeletionInverted(event) == event # "content_item.deleted"

\* webhookBody.event === 'content_item.deleted'
IsDeletion(event) == event = "content_item.deleted"

\* event 'updateNodes' up to its first await
UpdateNodes(body) ==
    /\ BeginRun
    /\ webhook' = body
    /\ IF IsDeletion(body.event)
       THEN /\ deleteLog' = Append(deleteLog, body.payload.id)
            /\ mode' = "delete"
            /\ pc' = "done"
       ELSE /\ mode' = "incremental"
            /\ pc' = "cacheGet"
            /\ UNCHANGED deleteLog
    /\ UNCHANGED <<now, cmsVars, hostVars, lastSync, fetchVars, createCalls,
                   createArg, cacheReads, cacheWrites, pendingCursor,
                   writtenAt, flatVars>>

UpdateNodesEvent ==
    \E event \in WebhookEvents, id \in {1, cmsN + 1} :
       UpdateNodes([event |-> event, payload |-> [id |-> id]])

\* cache.get('lastSync') resolves; syncArticles(..., lastSync) starts
CacheGet ==
    /\ pc = "cacheGet"
    /\ cacheReads' = cacheReads + 1
    /\ lastSync' = cache
    /\ updatedGte' = lastSync'
    /\ pc' = "request"
    /\ UNCHANGED <<now, cmsVars, hostVars, mode, webhook, skip, items, total,
                   request, response, requestLog, responses, errorsSeen,
                   inFlight, firstTotal, lastPageTotal, createCalls, createArg,
                   deleteLog, cacheWrites, pendingCursor, writtenAt, ghostVars,
                   flatVars>>

\* fetchArticles(skip) posts its query
SendRequest ==
    /\ pc = "request"
    /\ Len(requestLog) < MaxRequests
    /\ request' = Variables(skip, updatedGte)
    /\ requestLog' = Append(requestLog, request')
    /\ inFlight' = inFlight + 1
    /\ pc' = "await"
    /\ UNCHANGED <<now, cmsVars, hostVars, eventVars, updatedGte, skip, items,
                   total, response, responses, errorsSeen, firstTotal,
                   lastPageTotal, callVars, ghostVars, flatVars>>

\* variant: the error is caught and the pages fetched so far are persisted
AfterThrowSwallowed == "create"

\* where control goes on "throw new Error(...)": nothing catches it in
\* fetchArticles, syncArticles or the handlers, so the handler rejects
AfterThrow == "thrown"

\* the awaited .json() resolves: throw on errors, else accumulate and decide
ReceiveResponse ==
    /\ pc = "await"
    /\ response # <<>>
    /\ response' = <<>>
    /\ responses' = responses + 1
    /\ inFlight' = inFlight - 1
    /\ IF "errors" \in DOMAIN response
       THEN /\ errorsSeen' = TRUE
            /\ pc' = AfterThrow
            /\ UNCHANGED <<items, total, skip, firstTotal, lastPageTotal>>
       ELSE LET page == response.data.Articles
            IN  /\ errorsSeen' = errorsSeen
                /\ items' = items \o page.items
                /\ total' = NextTotal(total, page.total)
                /\ firstTotal' = IF responses = 0 THEN page.total ELSE firstTotal
                /\ lastPageTotal' = page.total
                /\ IF MorePages(total', Len(items'))
                   THEN /\ skip' = NextSkip(skip)
                        /\ pc' = "request"
                   ELSE /\ skip' = skip
                        /\ pc' = "create"
    /\ UNCHANGED <<now, cmsVars, hostVars, eventVars, updatedGte, request,
                   requestLog, callVars, ghostVars, flatVars>>

\* model.create(items.map(...)) and the call cache.set('lastSync', formatISO(Date.now()))
Create ==
    /\ pc = "create"
    /\ createArg' = Nodes(items)
    /\ createCalls' = createCalls + 1
    /\ created' = Upsert(created, createArg')
    /\ writtenAt' = now
    /\ pendingCursor' = FormatISO(now)
    /\ cacheWrites' = cacheWrites + 1
    /\ pc' = "cacheSet"
    /\ UNCHANGED <<now, cmsVars, cache, eventVars, fetchVars, deleteLog,
                   cacheReads, ghostVars, flatVars>>

\* the awaited cache.set resolves and the handler returns
CacheSet ==
    /\ pc = "cacheSet"
    /\ cache' = pendingCursor
    /\ pc' = "done"
    /\ UNCHANGED <<now, cmsVars, created, eventVars, fetchVars, callVars,
                   ghostVars, flatVars>>

\* the host takes the handler's result (or its rejection) and is free again
Return ==
    /\ pc \in {"done", "thrown"}
    /\ pc' = "idle"
    /\ mode' = "none"
    /\ webhook' = <<>>
    /\ lastSync' = Null
    /\ updatedGte' = Null
    /\ skip' = 0
    /\ items' = <<>>
    /\ total' = 0
    /\ request' = <<>>
    /\ response' = <<>>
    /\ requestLog' = <<>>
    /\ responses' = 0
    /\ errorsSeen' = FALSE
    /\ inFlight' = 0
    /\ firstTotal' = Null
    /\ lastPageTotal' = Null
    /\ cmsStable' = TRUE
    /\ createCalls' = 0
    /\ createArg' = <<>>
    /\ deleteLog' = <<>>
    /\ cacheReads' = 0
    /\ cacheWrites' = 0
    /\ pendingCursor' = Null
    /\ writtenAt' = Null
    /\ UNCHANGED <<now, cmsVars, hostVars, changedAtStart, cacheBefore,
                   flatVars>>

Next ==
    \/ Tick
    \/ CmsEdit
    \/ CmsDelete
    \/ ServerRespond
    \/ CreateAllNodes
    \/ UpdateNodesEvent
    \/ CacheGet
    \/ SendRequest
    \/ ReceiveResponse
    \/ Create
    \/ CacheSet
    \/ Return

Spec == Init /\ [][Next]_vars

\* ------------------------------ the same connector against a CMS at rest
InitFetch == InitWith(0..MaxTotal)

NextFetch ==
    \/ ServerRespond
    \/ CreateAllNodes
    \/ UpdateNodesEvent
    \/ CacheGet
    \/ SendRequest
    \/ ReceiveResponse
    \/ Create
    \/ CacheSet
    \/ Return

SpecFetch == InitFetch /\ [][NextFetch]_vars

\* ------------------------------------------- the content fold, step by step
BlockPool ==
    {AssetGroup(<<"a", "b">>), AssetGroup(<<"a">>), AssetGroup(<<>>),
     CodeBlock("JS", "x"), CodeBlock("RB", "q"), TextBlock("<p>y</p>"),
     OtherBlock}

BlockLists == UNION {[1..n -> BlockPool] : n \in 0..MaxBlocks}

InitFlatten ==
    /\ now = 0
    /\ cmsN = 0
    /\ cmsDeleted = {}
    /\ cmsChangedOn = <<>>
    /\ edits = 0
    /\ cache = Null
    /\ created = <<>>
    /\ pc = "idle"
    /\ NoRun
    /\ changedAtStart = <<>>
    /\ cacheBefore = Null
    /\ fBlocks \in BlockLists
    /\ fIdx = 0
    /\ fBody = ""

\* one call of the reducer of article.content.reduce(..., '')
FlattenStep ==
    /\ fIdx < Len(fBlocks)
    /\ fBody' = ReduceBlock(fBody, fBlocks[fIdx + 1])
    /\ fIdx' = fIdx + 1
    /\ UNCHANGED <<now, cmsVars, hostVars, pc, eventVars, fetchVars, callVars,
                   ghostVars, fBlocks>>

NextFlatten == FlattenStep

SpecFlatten == InitFlatten /\ [][NextFlatten]_vars

\* ==================================================================== claims
SyncModes == {"full", "incremental"}
Fetched == mode \in SyncModes /\ pc \in {"create", "cacheSet", "done"}
Succeeded == mode \in SyncModes /\ pc = "done"

CeilDiv(n, d) == (n + d - 1) \div d

\* the total the API reports for the running sync's filter
ApiTotal == Cardinality(Matching(updatedGte))

\* C1 as stated: once fetchArticles has returned, exactly ceil(N/100) page
\* requests were issued and exactly N items were accumulated, N being the
\* total the API reports.
C1_Original ==
    Fetched =>
       /\ firstTotal = ApiTotal
       /\ Len(requestLog) = CeilDiv(ApiTotal, PageSize)
       /\ Len(items) = ApiTotal

\* C1 amended: once fetchArticles has returned, N items were accumulated and
\* ceil(N/100) page requests were issued when N >= 1, one request when N = 0;
\* the list handed to model.create has N elements.
C1_PageRequests ==
    Fetched =>
       /\ firstTotal = ApiTotal
       /\ Len(requestLog) = (IF ApiTotal = 0 THEN 1
                             ELSE CeilDiv(ApiTotal, PageSize))
       /\ Len(items) = ApiTotal
       /\ createCalls = 1 => Len(createArg) = ApiTotal

C1_Witness ==
    /\ Fetched
    /\ Len(requestLog) = 3
    /\ Len(items) > 2 * PageSize
    /\ Len(items) % PageSize # 0

\* C2: once a response with an errors list has been received the handler has
\* thrown: no request is outstanding or can be issued, every request issued
\* was answered, model.create was not and cannot be called, no cache.set was
\* issued and the lastSync cursor is the one from before the sync.
C2_ErrorsAbort ==
    errorsSeen =>
       /\ pc = "thrown"
       /\ request = <<>> /\ response = <<>> /\ inFlight = 0
       /\ Len(requestLog) = responses
       /\ ~ENABLED SendRequest
       /\ createCalls = 0 /\ createArg = <<>>
       /\ ~ENABLED Create
       /\ cacheWrites = 0 /\ pendingCursor = Null
       /\ ~ENABLED CacheSet
       /\ cache = cacheBefore

C2_Witness ==
    /\ errorsSeen
    /\ mode = "incremental"
    /\ responses = 2
    /\ Len(items) = PageSize
    /\ cacheBefore # Null

\* C3 as stated: folding [asset group a b, code JS x, text <p>y</p>] gives
\* exactly <pre lang=js><code>x</code></pre><p>y</p>, the <img> tags of the
\* asset group being discarded.
C3_Original ==
    (fBlocks = ExampleBlocks /\ fIdx = Len(fBlocks)) =>
       fBody = "<pre lang=js><code>x</code></pre><p>y</p>"

\* C3 amended: folding [asset group a b, code JS x, text <p>y</p>] gives the
\* two <img> tags after the first block, and the code and text blocks append
\* to them: the body is
\* <img href="a"/><img href="b"/><pre lang=js><code>x</code></pre><p>y</p>.
C3_ExampleBody ==
    fBlocks = ExampleBlocks =>
       /\ fIdx = 1 => fBody = "<img href=\"a\"/><img href=\"b\"/>"
       /\ fIdx = 2 => fBody = "<img href=\"a\"/><img href=\"b\"/>"
                                \o "<pre lang=js><code>x</code></pre>"
       /\ fIdx = 3 => fBody = "<img href=\"a\"/><img href=\"b\"/>"
                                \o "<pre lang=js><code>x</code></pre><p>y</p>"

C3_Witness == fBlocks = ExampleBlocks /\ fIdx = Len(fBlocks)

IsAssetGroup(b) == "items" \in DOMAIN b

\* the output the claim gives for each block of BlockPool, written out
ExpectedPiece(b) ==
    CASE b = AssetGroup(<<"a", "b">>) -> "<img href=\"a\"/><img href=\"b\"/>"
      [] b = AssetGroup(<<"a">>) -> "<img href=\"a\"/>"
      [] b = AssetGroup(<<>>) -> ""
      [] b = CodeBlock("JS", "x") -> "<pre lang=js><code>x</code></pre>"
      [] b = CodeBlock("RB", "q") -> "<pre lang=rb><code>q</code></pre>"
      [] b = TextBlock("<p>y</p>") -> "<p>y</p>"
      [] OTHER -> ""

RECURSIVE Pieces(_, _, _)
Pieces(blocks, from, to) ==
    IF from > to THEN ""
    ELSE ExpectedPiece(blocks[from]) \o Pieces(blocks, from + 1, to)

LastAssetGroup(blocks, n) ==
    LET at == {i \in 1..n : IsAssetGroup(blocks[i])}
    IN  IF at = {} THEN 1 ELSE CHOOSE i \in at : \A j \in at : j <= i

\* C4: after any number of blocks the body is the output of the last asset
\* group among them (if any) followed by the outputs of the code and text
\* blocks after it, a block of no known shape adding nothing; a lone asset
\* group with url a gives <img href="a"/>.
C4_FoldClosedForm ==
    /\ fBody = Pieces(fBlocks, LastAssetGroup(fBlocks, fIdx), fIdx)
    /\ (fBlocks = <<AssetGroup(<<"a">>)>> /\ fIdx = 1) =>
          fBody = "<img href=\"a\"/>"

C4_Witness ==
    /\ Len(fBlocks) = 3
    /\ fIdx = 3
    /\ fBlocks[1] = TextBlock("<p>y</p>")
    /\ fBlocks[2] = AssetGroup(<<"a">>)
    /\ fBlocks[3] = CodeBlock("RB", "q")
    /\ fBody = "<img href=\"a\"/><pre lang=rb><code>q</code></pre>"

\* C5 as stated: after a successful sync the cursor is strictly later than
\* the value it held before that sync.
C5_Original ==
    (Succeeded /\ cacheBefore # Null) => cache > cacheBefore

\* C5 amended: after a successful sync the cursor has been overwritten, once,
\* with the time read for the write cut to whole seconds, and it is later
\* than or equal to the value it held before that sync.
C5_CursorWholeSeconds ==
    Succeeded =>
       /\ cacheWrites = 1
       /\ cache # Null
       /\ cache % MsPerSecond = 0
       /\ cache <= writtenAt /\ writtenAt < cache + MsPerSecond
       /\ writtenAt <= now
       /\ cache >= cacheBefore

C5_Witness ==
    /\ Succeeded
    /\ cacheBefore # Null
    /\ cache > cacheBefore
    /\ writtenAt > cache

\* C6: an updateNodes run whose webhook event is content_item.deleted makes
\* exactly one model.delete call, with the payload id, and no page request,
\* no model.create call, no cache.get and no cache.set; a run with any other
\* event makes no delete call and is the incremental sync.
C6_DeletionEvent ==
    webhook # <<>> =>
       IF webhook.event = "content_item.deleted"
       THEN /\ deleteLog = <<webhook.payload.id>>
            /\ requestLog = <<>> /\ request = <<>>
            /\ createCalls = 0
            /\ cacheReads = 0 /\ cacheWrites = 0
            /\ cache = cacheBefore
            /\ pc = "done"
       ELSE /\ deleteLog = <<>>
            /\ mode = "incremental"
            /\ pc # "cacheGet" => cacheReads = 1
            /\ pc = "done" => (createCalls = 1 /\ Len(requestLog) >= 1)

C6_Witness ==
    /\ webhook # <<>>
    /\ webhook.event = "content_item.deleted"
    /\ webhook.payload.id = 1
    /\ cmsN > PageSize
    /\ deleteLog = <<1>>
    /\ cache # Null

\* C7: every request of an incremental sync carries the value read from the
\* cache at the start of the sync as _changed_on_gte, every request of a
\* full sync carries null.
C7_FilterVerbatim ==
    /\ \A k \in 1..Len(requestLog) :
          requestLog[k].where._changed_on_gte =
             (IF mode = "incremental" THEN lastSync ELSE Null)
    /\ (mode = "incremental" /\ pc # "cacheGet") => lastSync = cacheBefore

C7_Witness ==
    /\ mode = "incremental"
    /\ lastSync # Null
    /\ Len(requestLog) = 2
    /\ requestLog[2].where._changed_on_gte = lastSync

\* C8: a successful sync has called model.create once, with one node per
\* fetched article in fetch order, id, slug, title and updated copied from
\* _id, _slug, title and _changed_on, and authors and categories mapped
\* element by element.
C8_NodePerArticle ==
    /\ createCalls <= 1
    /\ (mode \in SyncModes /\ pc \in {"cacheSet", "done"}) =>
          /\ createCalls = 1
          /\ Len(createArg) = Len(items)
          /\ \A i \in 1..Len(items) :
                LET a == items[i]
                    n == createArg[i]
                IN  /\ n.id = a._id
                    /\ n.slug = a._slug
                    /\ n.title = a.title
                    /\ n.updated = a._changed_on
                    /\ Len(n.authors) = Len(a.authors)
                    /\ \A j \in 1..Len(a.authors) :
                          /\ n.authors[j].author_id = a.authors[j]._id
                          /\ n.authors[j].name = a.authors[j].full_name
                          /\ n.authors[j].bio = a.authors[j].bio
                    /\ Len(n.categories) = Len(a.categories)
                    /\ \A j \in 1..Len(a.categories) :
                          /\ n.categories[j].category_id = a.categories[j]._id
                          /\ n.categories[j].slug = a.categories[j]._slug
                          /\ n.categories[j].title = a.categories[j].title

C8_Witness ==
    /\ Succeeded
    /\ Len(createArg) > PageSize
    /\ \E i \in 1..Len(createArg) :
          /\ Len(createArg[i].authors) = 2
          /\ Len(createArg[i].categories) = 2
          /\ createArg[i].updated > 0
    /\ \E i \in 1..Len(createArg) :
          /\ createArg[i].authors = <<>>
          /\ createArg[i].categories = <<>>

\* C9: the k-th request carries skip = 100*k; a request is issued only when
\* every earlier one has been answered, so at most one is outstanding; and
\* after every page the fetch goes on exactly when the total reported by
\* the first page exceeds the number of items accumulated.
C9_Sequential ==
    /\ \A k \in 1..Len(requestLog) : requestLog[k].skip = PageSize * (k - 1)
    /\ inFlight \in {0, 1}
    /\ Len(requestLog) = responses + inFlight
    /\ inFlight = 1 <=> (request # <<>> \/ response # <<>>)
    /\ ~(request # <<>> /\ response # <<>>)
    /\ inFlight = 1 => ~ENABLED SendRequest
    /\ (mode \in SyncModes /\ responses >= 1 /\ ~errorsSeen) =>
          /\ total = firstTotal
          /\ pc \in {"request", "await"} => firstTotal > Len(items)
          /\ Fetched => ~(firstTotal > Len(items))

C9_Witness ==
    /\ pc = "request"
    /\ responses = 2
    /\ lastPageTotal < firstTotal
    /\ Len(items) = PageSize

\* C10: when an incremental sync has completed, every article of the CMS
\* that was edited before that sync began (during an earlier sync or between
\* syncs) has been passed to model.create, by that sync or an earlier one,
\* in a version at least as new as that edit.
C10_NoChangeLost ==
    (pc = "done" /\ mode = "incremental") =>
       \A id \in Watched \ cmsDeleted :
          changedAtStart[id] > 0 => created[id] >= changedAtStart[id]
====
